---- MODULE Spec2Model ----
(***************************************************************************)
(* Model of fight2.py: a Streamlit page that scores two code submissions   *)
(* with pylint, announces a winner and rewrites ranking.json.              *)
(*                                                                         *)
(* Scores are kept in hundredths (7.50 is 750).  A code text is a sequence *)
(* of characters, a pylint stdout is a sequence of lines, a line is the    *)
(* sequence of its space-separated words.  Every browser session runs the  *)
(* script top to bottom on each interaction; sessions share ranking.json.  *)
(***************************************************************************)
EXTENDS Integers, Sequences, FiniteSets, TLC

VARIABLES
    file,       \* ranking.json: [exists, valid, len, data]: whether its text is
                \* JSON, the text's length in bytes, the JSON object's members
    leftover,   \* temporary .py files left behind by calls that have ended,
                \* counted up to MaxTemp (MaxTemp stands for MaxTemp or more)
    pc,         \* per session: position of the script run
    rankings,   \* per session: local `rankings` of main()
    dev_a,      \* per session: name widgets
    dev_b,
    code_a,     \* per session: code widgets
    code_b,
    score_a,    \* per session: local score_a / score_b (None or a score)
    score_b,
    ui,         \* per session: elements rendered by this run, in order
    calls,      \* per session: get_pylint_score invocations of this run
    probe       \* last direct call of get_pylint_score: input and result

vars == <<file, leftover, pc, rankings, dev_a, dev_b, code_a, code_b,
          score_a, score_b, ui, calls, probe>>

-----------------------------------------------------------------------------
(* Bounds *)

MaxCodeLen == 1
MaxLines == 2
MaxTemp == 2

-----------------------------------------------------------------------------
(* Values *)

Sessions == {1, 2}

Names == {"Developer A", "Developer B"}

\* " " is whitespace, "x" an ordinary character, "\\udc80" a lone surrogate,
\* which the text-mode temporary file cannot encode.
Chars == {" ", "x", "\\udc80"}

Whitespace == {" "}

Unencodable == {"\\udc80"}

RECURSIVE SeqsUpTo(_, _)
SeqsUpTo(S, n) ==
    IF n = 0 THEN {<<>>}
    ELSE LET shorter == SeqsUpTo(S, n - 1)
         IN  shorter \cup {Append(q, x) : q \in shorter, x \in S}

Codes == SeqsUpTo(Chars, MaxCodeLen)

None == <<>>

Some(v) == <<v>>

EmptyMap == [n \in {} |-> 0]

NoFile == [exists |-> FALSE, valid |-> FALSE, len |-> 0, data |-> {}]

Min(a, b) == IF a <= b THEN a ELSE b

-----------------------------------------------------------------------------
(* str.strip() *)

RECURSIVE LStrip(_)
LStrip(s) ==
    IF s # <<>> /\ Head(s) \in Whitespace THEN LStrip(Tail(s)) ELSE s

RECURSIVE RStrip(_)
RStrip(s) ==
    IF s # <<>> /\ s[Len(s)] \in Whitespace
    THEN RStrip(SubSeq(s, 1, Len(s) - 1))
    ELSE s

Strip(s) == RStrip(LStrip(s))

\* truthiness of code.strip()
Submitted(code) == Strip(code) # <<>>

-----------------------------------------------------------------------------
(* Ranking store *)

\* bytes of a name and of a score as json.dump writes them
\* ("Developer A"; 7.5, 0.0, -2.5)
NameLen == [n \in Names |-> 11]

NumLen(v) == IF v < 0 THEN 4 ELSE 3

\* one member line of the indented text: '    "name": number'
MemberLen(member) == 4 + (NameLen[member[1]] + 2) + 2 + NumLen(member[2])

RECURSIVE SumMemberLen(_)
SumMemberLen(members) ==
    IF members = {} THEN 0
    ELSE LET x == CHOOSE y \in members : TRUE
         IN  MemberLen(x) + SumMemberLen(members \ {x})

\* json.dump(m, indent=4): '{}' or '{\n' members joined by ',\n' '\n}'
JsonDump(m) ==
    LET members == {<<n, m[n]>> : n \in DOMAIN m} IN
    [valid |-> TRUE,
     len |-> IF members = {} THEN 2
             ELSE 2 + SumMemberLen(members)
                    + 2 * (Cardinality(members) - 1) + 2,
     data |-> members]

\* json.load of an object: the dict of its members
JsonLoad(obj) ==
    [n \in {p[1] : p \in obj} |-> (CHOOSE p \in obj : p[1] = n)[2]]

\* whether load_rankings returns: the file is absent or holds JSON text
Loadable(f) == ~f.exists \/ f.valid

load_rankings(f) == IF f.exists THEN JsonLoad(f.data) ELSE EmptyMap

\* line 21, open(RANKING_FILE, 'w'): the file exists and is empty
OpenForWrite == [exists |-> TRUE, valid |-> FALSE, len |-> 0, data |-> {}]

\* line 22 and the close: the text goes to offset 0 of what the file holds
\* by then; bytes of a longer content stay behind the text and spoil it
WriteText(f, text) ==
    IF text.len >= f.len
    THEN [exists |-> TRUE, valid |-> text.valid, len |-> text.len,
          data |-> text.data]
    ELSE [exists |-> TRUE, valid |-> FALSE, len |-> f.len, data |-> {}]

\* a store that wipes the other entries with the new score
update_rankingsClobber(m, developer, score) ==
    [n \in DOMAIN m \cup {developer} |-> score]

\* a store that keeps the higher of the stored and the new score
update_rankingsKeepBest(m, developer, score) ==
    [n \in DOMAIN m \cup {developer} |->
        IF n # developer THEN m[n]
        ELSE IF n \in DOMAIN m /\ m[n] > score THEN m[n] ELSE score]

\* a store that never replaces an entry it already holds
update_rankingsSetDefault(m, developer, score) ==
    [n \in DOMAIN m \cup {developer} |->
        IF n \in DOMAIN m THEN m[n] ELSE score]

update_rankings(m, developer, score) ==
    [n \in DOMAIN m \cup {developer} |->
        IF n = developer THEN score ELSE m[n]]

\* entry of a mapping as None / Some(score)
Entry(m, n) == IF n \in DOMAIN m THEN Some(m[n]) ELSE None

-----------------------------------------------------------------------------
(* pylint's output and its parse *)

RatingPrefix == <<"Your", "code", "has", "been", "rated", "at">>

\* line.startswith("Your code has been rated at")
StartsWithRating(line) ==
    Len(line) >= Len(RatingPrefix)
    /\ SubSeq(line, 1, Len(RatingPrefix)) = RatingPrefix

\* word.split('/') for the words a rating line carries in seventh place
SplitSlash(word) ==
    CASE word = "7.50/10"  -> <<"7.50", "10">>
      [] word = "-2.50/10" -> <<"-2.50", "10">>
      [] word = "n/a"      -> <<"n", "a">>
      [] OTHER             -> <<word>>

ScoreWords == {"7.50/10", "-2.50/10", "n/a"}

\* float(): the numerals float() accepts, with their value in hundredths
FloatTable ==
    [t \in {"7.50", "-2.50"} |->
        CASE t = "7.50"  -> 750
          [] t = "-2.50" -> -250]

OtherLine == <<"Module", "tmp">>

RatingLines == {RatingPrefix \o <<w>> : w \in ScoreWords}

Lines == {OtherLine, RatingPrefix} \cup RatingLines

Stdouts == SeqsUpTo(Lines, MaxLines)

\* What subprocess.run can do: raise, or complete with some stdout
ProcOutcomes ==
    {[raises |-> TRUE, stdout |-> <<>>]}
    \cup {[raises |-> FALSE, stdout |-> out] : out \in Stdouts}

\* the completed runs whose stdout is a single line, and the failed launch
OneLineProcs == {p \in ProcOutcomes : Len(p.stdout) <= 1}

Returned(v) == [exc |-> "", value |-> v]

Raised(e) == [exc |-> e, value |-> 0]

\* a parse that answers 0.0 for a numeral float() rejects, raising nothing
ParseRatingQuiet(line) ==
    IF Len(line) < 7 THEN [exc |-> "IndexError", value |-> 0]
    ELSE LET numeral == SplitSlash(line[7])[1]
         IN  IF numeral \in DOMAIN FloatTable
             THEN [exc |-> "", value |-> FloatTable[numeral]]
             ELSE [exc |-> "", value |-> 0]

\* lines 45-47: score_str = line.split(" ")[6]; float(score_str.split('/')[0])
ParseRating(line) ==
    IF Len(line) < 7 THEN Raised("IndexError")
    ELSE LET numeral == SplitSlash(line[7])[1]
         IN  IF numeral \in DOMAIN FloatTable
             THEN Returned(FloatTable[numeral])
             ELSE Raised("ValueError")

\* lines 43-48: the first rating line decides; none gives 0.0
RECURSIVE ScanLines(_)
ScanLines(lines) ==
    IF lines = <<>> THEN Returned(0)
    ELSE IF StartsWithRating(Head(lines)) THEN ParseRating(Head(lines))
    ELSE ScanLines(Tail(lines))

\* lines 33-48, the body of the try
TryBody(p) ==
    IF p.raises THEN Raised("OSError") ELSE ScanLines(p.stdout)

\* temp.write(code) in text mode
Encodable(code) == \A i \in 1..Len(code) : code[i] \notin Unencodable

\* get_pylint_score(code) when subprocess.run behaves as p:
\*   value     the float returned (when nothing propagates)
\*   thrown    the exception that leaves the function, "" if none
\*   banner    the exception st.error reported, "" if none
\*   launched  whether pylint was started
\*   tempLeft  whether the temporary file is still on disk at exit
get_pylint_score(code, p) ==
    IF ~Encodable(code)
    THEN [value |-> 0, thrown |-> "UnicodeEncodeError", banner |-> "",
          launched |-> FALSE, tempLeft |-> TRUE]
    ELSE LET r == TryBody(p)
         IN  [value |-> r.value, thrown |-> "", banner |-> r.exc,
              launched |-> TRUE, tempLeft |-> FALSE]

-----------------------------------------------------------------------------
(* UI elements *)

Elem(w, kind, name, side, val) ==
    [w |-> w, kind |-> kind, name |-> name, side |-> side, val |-> val]

Warning == Elem("warning", "need_code", "", "", None)

ErrorBanner(e) == Elem("error", "pylint", e, "", None)

ScoreLine(dev, side, s) == Elem("subheader", "score", dev, side, Some(s))

MissingLine(dev, side) == Elem("subheader", "missing", dev, side, None)

\* a comparison that gives equal scores to side A
OutcomeGE(da, sa, db, sb) ==
    IF sa # None /\ sb # None
    THEN IF sa[1] >= sb[1] THEN <<Elem("success", "win", da, "A", None)>>
         ELSE <<Elem("success", "win", db, "B", None)>>
    ELSE IF sa # None THEN <<Elem("success", "auto", da, "A", None)>>
    ELSE IF sb # None THEN <<Elem("success", "auto", db, "B", None)>>
    ELSE <<>>

\* a comparison whose only-one-side branches both name side A
OutcomeAutoA(da, sa, db, sb) ==
    IF sa # None /\ sb # None
    THEN IF sa[1] > sb[1] THEN <<Elem("success", "win", da, "A", None)>>
         ELSE IF sb[1] > sa[1] THEN <<Elem("success", "win", db, "B", None)>>
         ELSE <<Elem("info", "tie", "", "", None)>>
    ELSE IF sa # None THEN <<Elem("success", "auto", da, "A", None)>>
    ELSE IF sb # None THEN <<Elem("success", "auto", da, "A", None)>>
    ELSE <<>>

\* lines 133-144: the outcome elements, in order
Outcome(da, sa, db, sb) ==
    IF sa # None /\ sb # None
    THEN IF sa[1] > sb[1] THEN <<Elem("success", "win", da, "A", None)>>
         ELSE IF sb[1] > sa[1] THEN <<Elem("success", "win", db, "B", None)>>
         ELSE <<Elem("info", "tie", "", "", None)>>
    ELSE IF sa # None THEN <<Elem("success", "auto", da, "A", None)>>
    ELSE IF sb # None THEN <<Elem("success", "auto", db, "B", None)>>
    ELSE <<>>

\* a check that forgets to trim
BothBlankNoStrip(ca, cb) == ca = <<>> /\ cb = <<>>

\* line 107
BothBlank(ca, cb) == ~Submitted(ca) /\ ~Submitted(cb)

-----------------------------------------------------------------------------
(* The script run of one session *)

Terminal == {"ready", "aborted", "crashed", "done"}

\* the sessions whose temporary file is on disk while pylint runs
Linting == {s \in Sessions : pc[s] \in {"lintA", "lintB"}}

\* number of temporary .py files present on disk
tmpfiles == leftover + Cardinality(Linting)

Init ==
    /\ file = NoFile
    /\ leftover = 0
    /\ pc = [s \in Sessions |-> "ready"]
    /\ rankings = [s \in Sessions |-> EmptyMap]
    /\ dev_a = [s \in Sessions |-> "Developer A"]
    /\ dev_b = [s \in Sessions |-> "Developer B"]
    /\ code_a = [s \in Sessions |-> <<>>]
    /\ code_b = [s \in Sessions |-> <<>>]
    /\ score_a = [s \in Sessions |-> None]
    /\ score_b = [s \in Sessions |-> None]
    /\ ui = [s \in Sessions |-> <<>>]
    /\ calls = [s \in Sessions |-> 0]
    /\ probe = [called |-> FALSE, code |-> <<>>,
                proc |-> [raises |-> FALSE, stdout |-> <<>>],
                res |-> get_pylint_score(<<>>, [raises |-> FALSE, stdout |-> <<>>])]

\* lines 79-104 of every run: load the rankings, draw the widgets; the
\* elements of the previous run are gone.  When ranking.json holds no JSON
\* text, json.load raises at line 86 and the run ends there, `rankings`
\* unbound (kept as the empty mapping).
Begin(s, to) ==
    /\ pc[s] \in Terminal
    /\ IF Loadable(file)
       THEN /\ rankings' = [rankings EXCEPT ![s] = load_rankings(file)]
            /\ pc' = [pc EXCEPT ![s] = to]
       ELSE /\ rankings' = [rankings EXCEPT ![s] = EmptyMap]
            /\ pc' = [pc EXCEPT ![s] = "crashed"]
    /\ score_a' = [score_a EXCEPT ![s] = None]
    /\ score_b' = [score_b EXCEPT ![s] = None]
    /\ ui' = [ui EXCEPT ![s] = <<>>]
    /\ calls' = [calls EXCEPT ![s] = 0]
    /\ UNCHANGED <<file, leftover, probe>>

\* the user changes one widget: the script reruns with the button not
\* pressed, line 106 is false and the run ends
Edit(s, N, C) ==
    /\ Begin(s, "ready")
    /\ \/ \E n \in N : /\ dev_a' = [dev_a EXCEPT ![s] = n]
                        /\ UNCHANGED <<dev_b, code_a, code_b>>
       \/ \E n \in N : /\ dev_b' = [dev_b EXCEPT ![s] = n]
                        /\ UNCHANGED <<dev_a, code_a, code_b>>
       \/ \E c \in C : /\ code_a' = [code_a EXCEPT ![s] = c]
                        /\ UNCHANGED <<dev_a, dev_b, code_b>>
       \/ \E c \in C : /\ code_b' = [code_b EXCEPT ![s] = c]
                        /\ UNCHANGED <<dev_a, dev_b, code_a>>

\* the user presses the button: the script reruns with the widgets as they
\* are and line 106 is true
Press(s) ==
    /\ Begin(s, "pressed")
    /\ UNCHANGED <<dev_a, dev_b, code_a, code_b>>

\* lines 107-117
Validate(s) ==
    /\ pc[s] = "pressed"
    /\ IF BothBlank(code_a[s], code_b[s])
       THEN /\ ui' = [ui EXCEPT ![s] = Append(@, Warning)]
            /\ pc' = [pc EXCEPT ![s] = "aborted"]
       ELSE /\ ui' = ui
            /\ pc' = [pc EXCEPT ![s] = "scoreA"]
    /\ UNCHANGED <<file, leftover, rankings, dev_a, dev_b, code_a, code_b,
                   score_a, score_b, calls, probe>>

\* the elements a completed get_pylint_score call and line 121/128 render
Rendered(r, dev, side) ==
    (IF r.banner # "" THEN <<ErrorBanner(r.banner)>> ELSE <<>>)
    \o <<ScoreLine(dev, side, r.value)>>

\* line 119, and for a submitted side lines 29-35 of the call at line 120:
\* the temporary file is created and written and pylint is started; a text
\* that cannot be written ends the run, its file left on disk.
\* Line 124 for a side that did not submit.
StartA(s) ==
    /\ pc[s] = "scoreA"
    /\ IF Submitted(code_a[s])
       THEN /\ calls' = [calls EXCEPT ![s] = @ + 1]
            /\ IF Encodable(code_a[s])
               THEN /\ pc' = [pc EXCEPT ![s] = "lintA"]
                    /\ UNCHANGED leftover
               ELSE /\ pc' = [pc EXCEPT ![s] = "crashed"]
                    /\ leftover' = Min(leftover + 1, MaxTemp)
            /\ UNCHANGED ui
       ELSE /\ ui' = [ui EXCEPT ![s] = Append(@, MissingLine(dev_a[s], "A"))]
            /\ pc' = [pc EXCEPT ![s] = "scoreB"]
            /\ UNCHANGED <<calls, leftover>>
    /\ UNCHANGED <<file, rankings, dev_a, dev_b, code_a, code_b,
                   score_a, score_b, probe>>

\* lines 35-53 of the call at line 120 once subprocess.run is over, then
\* lines 121-122: the temporary file is removed, the score rendered and
\* stored in `rankings`
FinishA(s, P) ==
    /\ pc[s] = "lintA"
    /\ \E p \in P :
          LET r == get_pylint_score(code_a[s], p) IN
          /\ score_a' = [score_a EXCEPT ![s] = Some(r.value)]
          /\ ui' = [ui EXCEPT ![s] = @ \o Rendered(r, dev_a[s], "A")]
          /\ rankings' = [rankings EXCEPT ![s] =
                            update_rankings(@, dev_a[s], r.value)]
    /\ pc' = [pc EXCEPT ![s] = "scoreB"]
    /\ UNCHANGED <<file, leftover, dev_a, dev_b, code_a, code_b, score_b,
                   calls, probe>>

\* line 126, and lines 29-35 of the call at line 127, or line 131
StartB(s) ==
    /\ pc[s] = "scoreB"
    /\ IF Submitted(code_b[s])
       THEN /\ calls' = [calls EXCEPT ![s] = @ + 1]
            /\ IF Encodable(code_b[s])
               THEN /\ pc' = [pc EXCEPT ![s] = "lintB"]
                    /\ UNCHANGED leftover
               ELSE /\ pc' = [pc EXCEPT ![s] = "crashed"]
                    /\ leftover' = Min(leftover + 1, MaxTemp)
            /\ UNCHANGED ui
       ELSE /\ ui' = [ui EXCEPT ![s] = Append(@, MissingLine(dev_b[s], "B"))]
            /\ pc' = [pc EXCEPT ![s] = "decide"]
            /\ UNCHANGED <<calls, leftover>>
    /\ UNCHANGED <<file, rankings, dev_a, dev_b, code_a, code_b,
                   score_a, score_b, probe>>

\* lines 35-53 of the call at line 127 once subprocess.run is over, then
\* lines 128-129
FinishB(s, P) ==
    /\ pc[s] = "lintB"
    /\ \E p \in P :
          LET r == get_pylint_score(code_b[s], p) IN
          /\ score_b' = [score_b EXCEPT ![s] = Some(r.value)]
          /\ ui' = [ui EXCEPT ![s] = @ \o Rendered(r, dev_b[s], "B")]
          /\ rankings' = [rankings EXCEPT ![s] =
                            update_rankings(@, dev_b[s], r.value)]
    /\ pc' = [pc EXCEPT ![s] = "decide"]
    /\ UNCHANGED <<file, leftover, dev_a, dev_b, code_a, code_b, score_a,
                   calls, probe>>

\* lines 133-144
Decide(s) ==
    /\ pc[s] = "decide"
    /\ ui' = [ui EXCEPT ![s] =
                @ \o Outcome(dev_a[s], score_a[s], dev_b[s], score_b[s])]
    /\ pc' = [pc EXCEPT ![s] = "save"]
    /\ UNCHANGED <<file, leftover, rankings, dev_a, dev_b, code_a, code_b,
                   score_a, score_b, calls, probe>>

\* line 147 up to line 21: save_rankings opens ranking.json for writing,
\* which empties it
SaveOpen(s) ==
    /\ pc[s] = "save"
    /\ file' = OpenForWrite
    /\ pc' = [pc EXCEPT ![s] = "saving"]
    /\ UNCHANGED <<leftover, rankings, dev_a, dev_b, code_a, code_b,
                   score_a, score_b, ui, calls, probe>>

\* line 22 and the close of the file, where the text reaches the disk;
\* lines 149-157 only render
SaveWrite(s) ==
    /\ pc[s] = "saving"
    /\ file' = WriteText(file, JsonDump(rankings[s]))
    /\ pc' = [pc EXCEPT ![s] = "done"]
    /\ UNCHANGED <<leftover, rankings, dev_a, dev_b, code_a, code_b,
                   score_a, score_b, ui, calls, probe>>

Step(s, N, C, P) ==
    \/ Edit(s, N, C)
    \/ Press(s)
    \/ Validate(s)
    \/ StartA(s)
    \/ FinishA(s, P)
    \/ StartB(s)
    \/ FinishB(s, P)
    \/ Decide(s)
    \/ SaveOpen(s)
    \/ SaveWrite(s)

-----------------------------------------------------------------------------
(* Specifications *)

\* One session, every code text, pylint printing at most one line
Next == Step(1, Names, Codes, OneLineProcs)

Spec == Init /\ [][Next]_vars

\* get_pylint_score called directly, start to end, on every code text and
\* pylint behaviour
Probe ==
    \E c \in Codes, p \in ProcOutcomes :
        LET r == get_pylint_score(c, p) IN
        /\ probe' = [called |-> TRUE, code |-> c, proc |-> p, res |-> r]
        /\ leftover' = IF r.tempLeft THEN Min(leftover + 1, MaxTemp)
                       ELSE leftover
        /\ UNCHANGED <<file, pc, rankings, dev_a, dev_b, code_a, code_b,
                       score_a, score_b, ui, calls>>

NextScore == Probe

SpecScore == Init /\ [][NextScore]_vars

\* Two sessions on the same ranking.json
RaceCodes == {<<>>, <<"x">>}

RaceProcs == {[raises |-> FALSE, stdout |-> <<RatingPrefix \o <<"7.50/10">> >>]}

NextRace == \E s \in Sessions : Step(s, Names, RaceCodes, RaceProcs)

SpecRace == Init /\ [][NextRace]_vars

-----------------------------------------------------------------------------
(* Properties *)

\* the ranking persisted in ranking.json, as a later load would see it
Persisted == load_rankings(file)

\* the winner / tie elements among what a run rendered
IsOutcome(e) == e.kind \in {"win", "auto", "tie"}

OutcomeElems(s) == SelectSeq(ui[s], IsOutcome)

\* what the user reads of an element: its style, its wording, the name in it
Visible(q) == [i \in 1..Len(q) |-> <<q[i].w, q[i].kind, q[i].name>>]

\* the scores this battle wrote under name n, in the order they were written
ScoresOf(s, n) ==
    (IF score_a[s] # None /\ dev_a[s] = n THEN score_a[s] ELSE <<>>)
    \o (IF score_b[s] # None /\ dev_b[s] = n THEN score_b[s] ELSE <<>>)

SeqMax(q) == CHOOSE m \in {q[i] : i \in 1..Len(q)} :
                \A i \in 1..Len(q) : q[i] <= m

Max(a, b) == IF a >= b THEN a ELSE b

\* A session running alone reaches line 147 with ranking.json as it was
\* before the battle and `rankings` as the save will write it; once the
\* save is over the file holds that mapping.
AtSave(s) == pc[s] = "save"

SavedAsPassed(s) == pc[s] = "done" => (file.valid /\ Persisted = rankings[s])

\* C1: a press with both code fields empty or whitespace-only renders the
\* warning and ends the run at once: no call of get_pylint_score, no outcome
\* element, no save, ranking.json and the temporary files as they were.
C1_BothBlankAborts ==
    [][\A s \in Sessions :
         (/\ pc[s] = "pressed"
          /\ pc'[s] # "pressed"
          /\ ~Submitted(code_a[s])
          /\ ~Submitted(code_b[s]))
         => /\ pc'[s] = "aborted"
            /\ ui'[s] = <<Warning>>
            /\ OutcomeElems(s)' = <<>>
            /\ calls'[s] = 0
            /\ file' = file
            /\ tmpfiles' = tmpfiles]_vars

\* a run aborted on a whitespace-only field, with a ranking file on disk
C1_Witness ==
    /\ pc[1] = "aborted"
    /\ code_a[1] = <<" ">>
    /\ code_b[1] = <<>>
    /\ ui[1] = <<Warning>>
    /\ file.valid
    /\ Persisted # EmptyMap

\* the side that alone submitted, and the other one
OnlyA(s) == Submitted(code_a[s]) /\ ~Submitted(code_b[s])

OnlyB(s) == ~Submitted(code_a[s]) /\ Submitted(code_b[s])

AutoWin(s, dev, side, score) ==
    /\ OutcomeElems(s) = <<Elem("success", "auto", dev, side, None)>>
    /\ score # None
    /\ Entry(rankings[s], dev) = score

\* C2 as stated: with exactly one side submitted, that side auto-wins, the
\* saved ranking maps its name to its score, and the entry of the other
\* side's name is what it was before the battle.
C2_OtherEntryUnchanged ==
    \A s \in Sessions :
        /\ SavedAsPassed(s)
        /\ (AtSave(s) /\ OnlyA(s)) =>
              /\ AutoWin(s, dev_a[s], "A", score_a[s])
              /\ Entry(rankings[s], dev_b[s]) = Entry(Persisted, dev_b[s])
        /\ (AtSave(s) /\ OnlyB(s)) =>
              /\ AutoWin(s, dev_b[s], "B", score_b[s])
              /\ Entry(rankings[s], dev_a[s]) = Entry(Persisted, dev_a[s])

\* C2, amended: the same, the other side's entry being unchanged when the
\* other side's name differs from the submitting side's name.
C2_OtherEntryUnchangedDistinct ==
    \A s \in Sessions :
        /\ SavedAsPassed(s)
        /\ (AtSave(s) /\ OnlyA(s)) =>
              /\ AutoWin(s, dev_a[s], "A", score_a[s])
              /\ dev_b[s] # dev_a[s] =>
                    Entry(rankings[s], dev_b[s]) = Entry(Persisted, dev_b[s])
        /\ (AtSave(s) /\ OnlyB(s)) =>
              /\ AutoWin(s, dev_b[s], "B", score_b[s])
              /\ dev_a[s] # dev_b[s] =>
                    Entry(rankings[s], dev_a[s]) = Entry(Persisted, dev_a[s])

\* side A alone submitted and was saved; side B's older entry is still there
C2_Witness ==
    /\ pc[1] = "done"
    /\ file.valid
    /\ OnlyA(1)
    /\ dev_a[1] # dev_b[1]
    /\ Entry(Persisted, dev_a[1]) = score_a[1]
    /\ Entry(Persisted, dev_b[1]) # None
    /\ Entry(Persisted, dev_b[1]) # score_a[1]

\* C3: a battle that got past the check renders exactly one outcome element:
\* with both sides scored, A wins iff score_a > score_b, B wins iff
\* score_b > score_a, a tie iff they are equal; with one side scored, that
\* side auto-wins whatever its score.
C3_OneOutcome ==
    \A s \in Sessions : pc[s] \in {"save", "saving", "done"} =>
        LET o == OutcomeElems(s) IN
        /\ Len(o) = 1
        /\ IF Submitted(code_a[s]) /\ Submitted(code_b[s])
           THEN /\ score_a[s] # None /\ score_b[s] # None
                /\ (o[1] = Elem("success", "win", dev_a[s], "A", None))
                      <=> (score_a[s][1] > score_b[s][1])
                /\ (o[1] = Elem("success", "win", dev_b[s], "B", None))
                      <=> (score_b[s][1] > score_a[s][1])
                /\ (o[1] = Elem("info", "tie", "", "", None))
                      <=> (score_a[s][1] = score_b[s][1])
           ELSE IF Submitted(code_a[s])
           THEN o[1] = Elem("success", "auto", dev_a[s], "A", None)
           ELSE /\ Submitted(code_b[s])
                /\ o[1] = Elem("success", "auto", dev_b[s], "B", None)

\* side B alone submitted, scored 0.0 and auto-won
C3_Witness ==
    /\ pc[1] = "done"
    /\ OnlyB(1)
    /\ score_b[1] = Some(0)
    /\ OutcomeElems(1) = <<Elem("success", "auto", dev_b[1], "B", None)>>

\* C4: what the user reads as the outcome is what the battle with the two
\* (name, code) pairs swapped renders: the same winner's name, a tie for a
\* tie, an auto-win of the same developer, an abort for an abort.
C4_OrderIndependent ==
    \A s \in Sessions :
        /\ pc[s] \in {"save", "saving", "done"} =>
              Visible(OutcomeElems(s))
                = Visible(Outcome(dev_b[s], score_b[s], dev_a[s], score_a[s]))
        /\ pc[s] = "aborted" => BothBlank(code_b[s], code_a[s])
        /\ pc[s] \in {"scoreA", "lintA", "scoreB", "lintB", "decide",
                     "save", "saving", "done"} =>
              ~BothBlank(code_b[s], code_a[s])

\* side B won on points against a differently named side A
C4_Witness ==
    /\ pc[1] = "done"
    /\ dev_a[1] # dev_b[1]
    /\ score_a[1] # None /\ score_b[1] # None
    /\ score_b[1][1] > score_a[1][1]
    /\ Visible(OutcomeElems(1)) = <<<<"success", "win", dev_b[1]>>>>

InRange(v) == 0 <= v /\ v <= 1000

\* C5: every score get_pylint_score returns, and so every value in the
\* ranking table and in ranking.json, lies in [0.0, 10.0].
C5_ScoresInRange ==
    /\ \A s \in Sessions :
          /\ score_a[s] # None => InRange(score_a[s][1])
          /\ score_b[s] # None => InRange(score_b[s][1])
          /\ \A n \in DOMAIN rankings[s] : InRange(rankings[s][n])
    /\ \A n \in DOMAIN Persisted : InRange(Persisted[n])

\* C6: every call of get_pylint_score leaves no temporary file behind,
\* whichever way it ends.
C6_TempFileRemoved ==
    probe.called => (~probe.res.tempLeft /\ tmpfiles = 0)

\* C7 as stated: the saved value of a name that submitted is the highest
\* score it ever obtained: the higher of what was stored and what this
\* battle gave it.  Stated for battles between two different names whose
\* stored and new scores all lie in [0.0, 10.0].
C7_BestScoreKept ==
    \A s \in Sessions :
        /\ SavedAsPassed(s)
        /\ (/\ AtSave(s)
            /\ dev_a[s] # dev_b[s]
            /\ \A n \in DOMAIN Persisted : InRange(Persisted[n])
            /\ \A n \in DOMAIN rankings[s] : InRange(rankings[s][n]))
           => \A n \in Names : ScoresOf(s, n) # <<>> =>
                 Entry(rankings[s], n) =
                    IF Entry(Persisted, n) = None
                    THEN Some(SeqMax(ScoresOf(s, n)))
                    ELSE Some(Max(Persisted[n], SeqMax(ScoresOf(s, n))))

\* C7, amended: the saved value of a name that submitted is the score last
\* written for it in this battle, whatever was stored before; the other
\* names keep their entries.
C7_LatestScoreStored ==
    \A s \in Sessions :
        /\ SavedAsPassed(s)
        /\ AtSave(s) =>
              \A n \in Names :
                 Entry(rankings[s], n) =
                    IF ScoresOf(s, n) # <<>>
                    THEN Some(ScoresOf(s, n)[Len(ScoresOf(s, n))])
                    ELSE Entry(Persisted, n)

\* at line 147 the mapping to be saved holds a score lower than the one
\* ranking.json still holds for that name
C7_Witness ==
    /\ AtSave(1)
    /\ file.valid
    /\ dev_b[1] # dev_a[1]
    /\ score_a[1] # None
    /\ Entry(Persisted, dev_a[1]) # None
    /\ Persisted[dev_a[1]] > score_a[1][1]
    /\ InRange(Persisted[dev_a[1]]) /\ InRange(score_a[1][1])
    /\ Entry(rankings[1], dev_a[1]) = score_a[1]

\* the rating lines of a stdout, and whether the first one can be read
HasRating(out) == \E i \in 1..Len(out) : StartsWithRating(out[i])

FirstRating(out) ==
    out[CHOOSE i \in 1..Len(out) :
          /\ StartsWithRating(out[i])
          /\ \A j \in 1..(i - 1) : ~StartsWithRating(out[j])]

Readable(line) ==
    Len(line) >= 7 /\ SplitSlash(line[7])[1] \in DOMAIN FloatTable

Unreadable(p) ==
    ~p.raises /\ HasRating(p.stdout) /\ ~Readable(FirstRating(p.stdout))

Completed == probe.called /\ probe.res.thrown = ""

\* C8 as stated: no rating line, or a rating line whose score cannot be
\* read, gives 0.0 and no error banner; only a raising invocation of the
\* linter shows the banner.
C8_BannerOnlyOnRaise ==
    Completed =>
        /\ (~probe.proc.raises /\ ~HasRating(probe.proc.stdout)) =>
              (probe.res.value = 0 /\ probe.res.banner = "")
        /\ Unreadable(probe.proc) =>
              (probe.res.value = 0 /\ probe.res.banner = "")
        /\ probe.res.banner # "" => probe.proc.raises

\* C8, amended: no rating line gives 0.0 and no banner; a first rating line
\* whose score is missing or is no number gives 0.0 and the banner, as a
\* raising invocation does; the banner is shown in these two cases only.
C8_BannerOnRaiseOrUnreadable ==
    Completed =>
        /\ (~probe.proc.raises /\ ~HasRating(probe.proc.stdout)) =>
              (probe.res.value = 0 /\ probe.res.banner = "")
        /\ Unreadable(probe.proc) =>
              (probe.res.value = 0 /\ probe.res.banner \in {"ValueError", "IndexError"})
        /\ probe.proc.raises =>
              (probe.res.value = 0 /\ probe.res.banner = "OSError")
        /\ probe.res.banner # "" =>
              (probe.proc.raises \/ Unreadable(probe.proc))

\* pylint printed a rating line whose score is no number: 0.0 and a banner
C8_Witness ==
    /\ Completed
    /\ probe.proc.stdout = <<OtherLine, RatingPrefix \o <<"n/a">> >>
    /\ probe.res.value = 0
    /\ probe.res.banner = "ValueError"

\* C9: when a session's save_rankings is over, ranking.json is exactly that
\* session's mapping: the last writer wins, what the file held under a name
\* that mapping lacks is gone.
C9_LastWriterWins ==
    [][\A s \in Sessions : (pc[s] = "saving" /\ pc'[s] = "done") =>
         /\ file'.valid
         /\ Persisted' = rankings[s]]_vars

\* C10 as stated: after a saved battle each submitting side's name maps to
\* that side's score, whatever the two names are.
C10_EachSideStored ==
    \A s \in Sessions : pc[s] = "done" =>
        /\ file.valid
        /\ Submitted(code_a[s]) => Entry(Persisted, dev_a[s]) = score_a[s]
        /\ Submitted(code_b[s]) => Entry(Persisted, dev_b[s]) = score_b[s]

\* C10, amended: side B's name maps to side B's score; side A's name maps
\* to side A's score unless side B submitted under the same name, and then
\* to side B's score.
C10_LastSideStored ==
    \A s \in Sessions : pc[s] = "done" =>
        /\ file.valid
        /\ Submitted(code_b[s]) =>
              (score_b[s] # None /\ Entry(Persisted, dev_b[s]) = score_b[s])
        /\ Submitted(code_a[s]) =>
              /\ score_a[s] # None
              /\ Entry(Persisted, dev_a[s]) =
                    IF Submitted(code_b[s]) /\ dev_b[s] = dev_a[s]
                    THEN score_b[s] ELSE score_a[s]

\* both sides submitted under one name with different scores
C10_Witness ==
    /\ pc[1] = "done"
    /\ file.valid
    /\ dev_a[1] = dev_b[1]
    /\ score_a[1] # None /\ score_b[1] # None
    /\ score_a[1] # score_b[1]
    /\ InRange(score_a[1][1]) /\ InRange(score_b[1][1])
    /\ Entry(Persisted, dev_a[1]) = score_b[1]

====
